---- MODULE Spec2Model ----
(***************************************************************************)
(* Model of the DASAS cluster coordination code: ClusterManager            *)
(* (api/clusters.py), AnalyticsManager (api/analytics.py), DeviceManager   *)
(* (api/devices.py) and the SQLite store behind them (db/database.py).     *)
(*                                                                         *)
(* Identifiers are small naturals: a device id is client supplied and      *)
(* ordered (start_election takes the max), a cluster id and every other    *)
(* uuid4 is opaque.  NULL stands for Python None / SQL NULL.  Time is in   *)
(* whole seconds, the resolution of SQLite's CURRENT_TIMESTAMP.            *)
(***************************************************************************)
EXTENDS Naturals, Integers, Sequences, FiniteSets, TLC

\* ------------------------------------------------------------------ bounds
NumDevices == 2
NumClusters == 1
NumResources == 2
NumData == 2
MaxEvents == 3
MaxClusterEvents == 2
MaxUuids == 3
MaxTime == 1
NumVoters == 3
MaxProposals == 1
NumCallers == 2

NULL == 0

\* The cluster whose coordination calls (resource, agreement) are followed.
TheCluster == 1

DeviceIds == 1..NumDevices
ClusterIds == 1..NumClusters
ResourceNames == 1..NumResources
DataValues == 1..NumData
ClusterStatuses == {"forming", "active", "degraded", "dissolved"}

\* The values update_cluster is called with for updates["status"]; "" stands
\* for updates without a "status" key.
UpdateStatuses == {"", "degraded"}

VARIABLES
    devices,      \* table devices: id -> [status, cluster_id]
    clusters,     \* table clusters: id -> [status, leader_id, member_count]
    checkpoints,  \* table checkpoints, rows in insertion (rowid) order
    events,       \* table events, rows in insertion (rowid) order
    now,          \* wall clock, seconds
    uuids,        \* number of uuid4 values drawn so far
    ret,          \* what the last completed call returned to its caller
    elected,      \* per cluster: leader_id returned by its last successful election
    granted,      \* per resource: devices told "granted" and not yet released
    waiting,      \* per resource: devices told "pending", in request order
    proposals,    \* agreement_id -> what initiate_byzantine_agreement returned
    votes,        \* agreement_id -> device -> vote sent by the device
    calls         \* in-flight create_checkpoint calls: caller -> frame

vars == <<devices, clusters, checkpoints, events, now, uuids, ret, elected,
          granted, waiting, proposals, votes, calls>>

\* ---------------------------------------------------------------- helpers
SetMax(S) == CHOOSE x \in S : \A y \in S : y <= x

Max2(a, b) == IF a >= b THEN a ELSE b

SeqToSet(s) == {s[i] : i \in 1..Len(s)}

\* The dictionary a call returns, with the keys the handlers put in their
\* results (id: checkpoint_id / agreement_id / recovery_id / clock_id; clock:
\* the device-id-to-counter entries of the result, which no handler fills;
\* nodes: the devices of a returned list);
\* raised: the call ended in an exception instead.
NoRet ==
    [op |-> "none", success |-> FALSE, status |-> "", message |-> "",
     id |-> NULL, sequence_number |-> NULL, data |-> NULL,
     leader_id |-> NULL, raised |-> FALSE, clock |-> <<>>, nodes |-> {},
     rows |-> <<>>]

\* json.dumps / json.loads of a checkpoint payload: the stored text is not the
\* payload itself, loads undoes dumps.
JsonDumps(d) == <<"json", d>>

JsonLoads(s) == s[2]

\* ------------------------------------------------------------ event table
\* INSERT INTO events (event_type, source_id, severity, message, metadata);
\* timestamp defaults to CURRENT_TIMESTAMP.  metadata keeps the keys the
\* handlers put there.
EventRow(event_type, source_id, metadata) ==
    [event_type |-> event_type, source_id |-> source_id,
     timestamp |-> now, metadata |-> metadata]

log_event(log, event_type, source_id, metadata) ==
    Append(log, EventRow(event_type, source_id, metadata))

CanLog == Len(events) < MaxEvents

\* The cap kept on the events the membership handlers log.
CanLogCluster == Len(events) < MaxClusterEvents

\* ----------------------------------------------------------- device table
\* SELECT * FROM devices WHERE cluster_id = ? (LIMIT 100 is above NumDevices)
get_members(devs, c) == {d \in DOMAIN devs : devs[d].cluster_id = c}

\* UPDATE devices SET status = ?, last_heartbeat = ?, cluster_id = ? WHERE id = ?
\* (last_heartbeat is datetime.now()).
update_device_status(devs, d, status, c) ==
    [devs EXCEPT ![d] = [status |-> status, cluster_id |-> c,
                         last_heartbeat |-> now]]

\* ---------------------------------------------------------- cluster table
\* INSERT OR REPLACE INTO clusters: every column not passed falls back to
\* kwargs.get's default (status "forming", leader_id None, member_count 0).
add_cluster(cls, c, status, leader_id, member_count) ==
    IF c \in DOMAIN cls
    THEN [cls EXCEPT ![c] = [status |-> status, leader_id |-> leader_id,
                             member_count |-> member_count]]
    ELSE [x \in DOMAIN cls \cup {c} |->
            IF x = c
            THEN [status |-> status, leader_id |-> leader_id,
                  member_count |-> member_count]
            ELSE cls[x]]

update_cluster_member_count(cls, c, count) ==
    IF c \in DOMAIN cls THEN [cls EXCEPT ![c].member_count = count] ELSE cls

\* ------------------------------------------------------------------- Init
EmptyTable == [x \in {} |-> NULL]

\* Nothing coordinated yet: no checkpoint, event, election, request or proposal.
InitCoordination ==
    /\ checkpoints = <<>>
    /\ events = <<>>
    /\ now = 0
    /\ uuids = 0
    /\ ret = NoRet
    /\ elected = [c \in ClusterIds |-> NULL]
    /\ granted = [r \in ResourceNames |-> {}]
    /\ waiting = [r \in ResourceNames |-> <<>>]
    /\ proposals = EmptyTable
    /\ votes = EmptyTable
    /\ calls = EmptyTable

\* The last_heartbeat column of a row that never got one (NULL).
NoHeartbeat == -1

\* The row register_device inserts: add_device leaves last_heartbeat unset.
NewDevice(c) ==
    [status |-> "online", cluster_id |-> c, last_heartbeat |-> NoHeartbeat]

\* The row of a registered device after its first process_heartbeat.
HeardDevice(c) == [NewDevice(c) EXCEPT !.last_heartbeat = now]

NewCluster == [status |-> "forming", leader_id |-> NULL, member_count |-> 0]

\* The store after some clusters were created (create_cluster without a
\* leader), some devices registered (register_device with or without a
\* cluster to join) and heard of (process_heartbeat), and cleanup_old_data has
\* emptied the event table.  The empty store of
\* _create_tables is the case of no device and no cluster.
Init ==
    /\ now = 0
    /\ \E n \in 0..NumClusters :
          /\ clusters = [c \in 1..n |-> NewCluster]
          /\ \E D \in SUBSET DeviceIds :
                devices \in [D -> {HeardDevice(c) : c \in {NULL} \cup 1..n}]
    /\ InitCoordination

\* The empty store of _create_tables.
InitEmpty ==
    /\ devices = EmptyTable
    /\ clusters = EmptyTable
    /\ InitCoordination

\* The store with every cluster created and no device registered.
InitClusters ==
    /\ devices = EmptyTable
    /\ clusters = [c \in ClusterIds |-> NewCluster]
    /\ InitCoordination

\* ------------------------------------------------ membership and election
\* DeviceManager.register_device for a device id not yet in the table (for a
\* known id the call ends in update_device, which passes device_info's own
\* "device_id" key a second time and raises before any write).
RegisterDevice(d, c) ==
    /\ d \notin DOMAIN devices
    /\ c \in DOMAIN clusters \cup {NULL}
    /\ CanLogCluster
    /\ devices' = [x \in DOMAIN devices \cup {d} |->
                     IF x = d THEN NewDevice(c)
                     ELSE devices[x]]
    /\ events' = log_event(events, "device_registered", <<"device", d>>,
                           [device_id |-> d])
    /\ ret' = [NoRet EXCEPT !.op = "register_device", !.success = TRUE]
    /\ UNCHANGED <<clusters, checkpoints, now, uuids, elected, granted, waiting,
                   proposals, votes, calls>>

\* ClusterManager.create_cluster: the id is a fresh uuid4; leader_id is an
\* optional argument (the leader_id column references devices(id)).
CreateCluster(leader) ==
    LET c == Cardinality(DOMAIN clusters) + 1 IN
    /\ c \in ClusterIds
    /\ leader \in DOMAIN devices \cup {NULL}
    /\ CanLogCluster
    /\ clusters' = add_cluster(clusters, c, "forming", leader, 0)
    /\ events' = log_event(events, "cluster_created", <<"cluster", c>>,
                           [cluster_id |-> c])
    /\ ret' = [NoRet EXCEPT !.op = "create_cluster", !.success = TRUE]
    /\ UNCHANGED <<devices, checkpoints, now, uuids, elected, granted, waiting,
                   proposals, votes, calls>>

\* "Select leader based on device properties (highest ID or capability)":
\* max(members, key=id)
SelectLeader(members) == SetMax(members)

\* The leader_id start_election writes with add_cluster(status="active",
\* leader_id=leader["id"], configuration=...): member_count is not passed.
ElectionWrite(cls, c, leader) == add_cluster(cls, c, "active", leader, 0)

\* start_election with the empty-membership test missing before the write.
start_election_unchecked(devs, cls, log, c) ==
    LET members == get_members(devs, c)
        leader == IF members = {} THEN NULL ELSE SelectLeader(members) IN
    [clusters |-> ElectionWrite(cls, c, leader),
     events |-> log_event(log, "leader_elected", <<"cluster", c>>,
                          [leader_name |-> leader]),
     success |-> members # {}, leader_id |-> leader,
     message |-> IF members = {} THEN "No members in cluster" ELSE ""]

\* ClusterManager.start_election as a function of the store: the tables after
\* the call and the dictionary it returns.
start_election(devs, cls, log, c) ==
    LET members == get_members(devs, c) IN
    IF members = {}
    THEN [clusters |-> cls, events |-> log, success |-> FALSE,
          leader_id |-> NULL, message |-> "No members in cluster"]
    ELSE LET leader == SelectLeader(members) IN
         [clusters |-> ElectionWrite(cls, c, leader),
          events |-> log_event(log, "leader_elected", <<"cluster", c>>,
                               [leader_name |-> leader]),
          success |-> TRUE, leader_id |-> leader, message |-> ""]

StartElection(c) ==
    LET r == start_election(devices, clusters, events, c) IN
    /\ CanLogCluster
    /\ clusters' = r.clusters
    /\ events' = r.events
    /\ elected' = IF r.success THEN [elected EXCEPT ![c] = r.leader_id]
                  ELSE elected
    /\ ret' = [NoRet EXCEPT !.op = "start_election", !.success = r.success,
                            !.leader_id = r.leader_id,
                            !.message = r.message]
    /\ UNCHANGED <<devices, checkpoints, now, uuids, granted, waiting, proposals,
                   votes, calls>>

\* add_member without its duplicate test.
AlreadyMemberNever(devs, c, d) == FALSE

\* device.get("cluster_id") == cluster_id
AlreadyMember(devs, c, d) == devs[d].cluster_id = c

\* ClusterManager.add_member
AddMember(c, d) ==
    /\ CanLogCluster
    /\ IF c \notin DOMAIN clusters
       THEN /\ ret' = [NoRet EXCEPT !.op = "add_member",
                                    !.message = "Cluster not found"]
            /\ UNCHANGED <<devices, clusters, events>>
       ELSE IF d \notin DOMAIN devices
       THEN /\ ret' = [NoRet EXCEPT !.op = "add_member",
                                    !.message = "Device not found"]
            /\ UNCHANGED <<devices, clusters, events>>
       ELSE IF AlreadyMember(devices, c, d)
       THEN /\ ret' = [NoRet EXCEPT !.op = "add_member",
                                    !.message = "Device already in cluster"]
            /\ UNCHANGED <<devices, clusters, events>>
       ELSE LET devs == update_device_status(devices, d, "online", c)
                members == get_members(devs, c) IN
            /\ devices' = devs
            /\ clusters' = update_cluster_member_count(
                               clusters, c, Cardinality(members) + 1)
            /\ events' = log_event(events, "member_added", <<"cluster", c>>,
                                   [device_id |-> d])
            /\ ret' = [NoRet EXCEPT !.op = "add_member", !.success = TRUE]
    /\ UNCHANGED <<checkpoints, now, uuids, elected, granted, waiting, proposals,
                   votes, calls>>

\* remove_member without its leader test: no election is ever started.
LeaderRemovedNever(cls, c, d) == FALSE

\* "Check if leader was removed": cluster and cluster.get("leader_id") ==
\* device_id
LeaderRemoved(cls, c, d) == c \in DOMAIN cls /\ cls[c].leader_id = d

\* ClusterManager.remove_member, the election it starts when the removed
\* device was the leader included (the election's result is not looked at).
RemoveMember(c, d) ==
    /\ CanLogCluster
    /\ IF d \notin DOMAIN devices \/ devices[d].cluster_id # c
       THEN /\ ret' = [NoRet EXCEPT !.op = "remove_member",
                                    !.message = "Device not in cluster"]
            /\ UNCHANGED <<devices, clusters, events, elected>>
       ELSE LET devs == update_device_status(devices, d, "online", NULL)
                members == get_members(devs, c)
                counted == update_cluster_member_count(
                               clusters, c,
                               Max2(0, Cardinality(members) - 1))
                lost == LeaderRemoved(counted, c, d)
                r == start_election(devs, counted, events, c) IN
            /\ devices' = devs
            /\ clusters' = IF lost THEN r.clusters ELSE counted
            /\ events' = IF lost THEN r.events ELSE events
            /\ elected' = IF lost /\ r.success
                          THEN [elected EXCEPT ![c] = r.leader_id]
                          ELSE elected
            /\ ret' = [NoRet EXCEPT !.op = "remove_member", !.success = TRUE]
    /\ UNCHANGED <<checkpoints, now, uuids, granted, waiting, proposals, votes, calls>>

\* ClusterManager.update_cluster: only a "status" key reaches the store, through
\* add_cluster(cluster_id, name, status=..., configuration=...).
UpdateClusterWrite(cls, c, status) == add_cluster(cls, c, status, NULL, 0)

UpdateCluster(c, status) ==
    /\ IF c \notin DOMAIN clusters
       THEN /\ ret' = [NoRet EXCEPT !.op = "update_cluster"]
            /\ UNCHANGED clusters
       ELSE /\ clusters' = IF status # "" 
                           THEN UpdateClusterWrite(clusters, c, status)
                           ELSE clusters
            /\ ret' = [NoRet EXCEPT !.op = "update_cluster", !.success = TRUE]
    /\ UNCHANGED <<devices, checkpoints, events, now, uuids, elected, granted, waiting,
                   proposals, votes, calls>>

\* ClusterManager.get_leader: the device row of the cluster's leader_id
get_leader(cls, devs, c) ==
    IF c \notin DOMAIN cls \/ cls[c].leader_id = NULL THEN NULL
    ELSE IF cls[c].leader_id \in DOMAIN devs THEN cls[c].leader_id ELSE NULL

Next ==
    \/ \E c \in ClusterIds : StartElection(c)
    \/ \E c \in ClusterIds, d \in DeviceIds : AddMember(c, d)
    \/ \E c \in ClusterIds, d \in DeviceIds : RemoveMember(c, d)
    \/ \E c \in ClusterIds, s \in UpdateStatuses : UpdateCluster(c, s)

Spec == Init /\ [][Next]_vars

\* ------------------------------------------------------- mutual exclusion
\* The "status" key of request_resource's result: the handler keeps no token
\* and answers "pending" whoever holds the resource.
RequestStatusGrantAlways(holders, d) == "granted"

RequestStatus(holders, d) == "pending"

\* The "success" key of release_resource's result: True for every caller.
ReleaseSuccess(holders, d) == TRUE

\* ClusterManager.request_resource
RequestResource(c, d, r) ==
    LET st == RequestStatus(granted[r], d) IN
    /\ CanLog
    /\ events' = log_event(events, "resource_request", <<"cluster", c>>,
                           [device_id |-> d, resource |-> r])
    /\ granted' = IF st = "granted"
                  THEN [granted EXCEPT ![r] = @ \cup {d}] ELSE granted
    /\ waiting' = IF st = "pending" /\ d \notin SeqToSet(waiting[r])
                  THEN [waiting EXCEPT ![r] = Append(@, d)] ELSE waiting
    /\ ret' = [NoRet EXCEPT !.op = "request_resource", !.success = TRUE,
                            !.status = st]
    /\ UNCHANGED <<devices, clusters, checkpoints, now, uuids, elected,
                   proposals, votes, calls>>

\* ClusterManager.release_resource
ReleaseResource(c, d, r) ==
    LET ok == ReleaseSuccess(granted[r], d) IN
    /\ CanLog
    /\ events' = log_event(events, "resource_released", <<"cluster", c>>,
                           [device_id |-> d, resource |-> r])
    /\ granted' = IF ok THEN [granted EXCEPT ![r] = @ \ {d}] ELSE granted
    /\ ret' = [NoRet EXCEPT !.op = "release_resource", !.success = ok]
    /\ UNCHANGED <<devices, clusters, checkpoints, now, uuids, elected,
                   waiting, proposals, votes, calls>>

NextMutex ==
    \/ \E d \in DeviceIds, r \in ResourceNames :
          RequestResource(TheCluster, d, r)
    \/ \E d \in DeviceIds, r \in ResourceNames :
          ReleaseResource(TheCluster, d, r)

SpecMutex == InitEmpty /\ [][NextMutex]_vars

\* The resource_request rows of the log for resource r of cluster c.
RequestEvents(c, r) ==
    {i \in 1..Len(events) :
        /\ events[i].event_type = "resource_request"
        /\ events[i].source_id = <<"cluster", c>>
        /\ events[i].metadata.resource = r}

\* C1: at any time at most one device has been told it holds a resource's
\* token and has not released it since.
C1_AtMostOneHolder == \A r \in ResourceNames : Cardinality(granted[r]) <= 1

\* Two distinct devices have an outstanding request on the same resource.
C1_Witness ==
    \E r \in ResourceNames :
        /\ Cardinality(SeqToSet(waiting[r])) >= 2
        /\ ret.op = "request_resource"

\* The call the last row of the event table was logged by.
LastEvent == events[Len(events)]

\* C6: the first request on a resource (no token yet) is granted at once; a
\* request made while another device holds the token is answered pending; the
\* token is handed on in request order, so it is never free while a requester
\* waits.
C6_HandOffOrder ==
    /\ (ret.op = "request_resource"
        /\ Cardinality(RequestEvents(TheCluster,
                                     LastEvent.metadata.resource)) = 1)
           => /\ ret.status = "granted"
              /\ granted[LastEvent.metadata.resource]
                    = {LastEvent.metadata.device_id}
    /\ (ret.op = "request_resource"
        /\ granted[LastEvent.metadata.resource]
              \ {LastEvent.metadata.device_id} # {})
           => ret.status = "pending"
    /\ \A r \in ResourceNames :
           granted[r] = {} => waiting[r] = <<>>

\* C7: release_resource by a device that does not hold the token fails with a
\* not-holder result and leaves the holder and the queue as they were.
C7_NotHolderRelease ==
    [][\A d \in DeviceIds, r \in ResourceNames :
          (ReleaseResource(TheCluster, d, r) /\ d \notin granted[r])
             => (~ret'.success /\ granted' = granted /\ waiting' = waiting)]_vars

\* Every holder eventually calls release_resource: a release by a device
\* that holds the token is not postponed forever.
FairRelease ==
    \A d \in DeviceIds, r \in ResourceNames :
        WF_vars(ReleaseResource(TheCluster, d, r) /\ d \in granted[r])

SpecMutexFair == InitEmpty /\ [][NextMutex]_vars /\ FairRelease

\* C17: while every holder eventually releases, a device whose request was
\* answered pending (enqueued) for a resource is eventually granted the
\* resource's token.
C17_NoStarvation ==
    \A d \in DeviceIds, r \in ResourceNames :
        (d \in SeqToSet(waiting[r])) ~> (d \in granted[r])

\* C2: a successful start_election leaves the cluster with one leader_id, that
\* of a current member, and every later read of the cluster's leader returns
\* that leader until the next election.
C2_ElectedLeaderIsRead ==
    /\ (ret.op = "start_election" /\ ret.success)
          => /\ ret.leader_id # NULL
             /\ \E c \in DOMAIN clusters :
                   /\ LastEvent.source_id = <<"cluster", c>>
                   /\ clusters[c].leader_id = ret.leader_id
                   /\ ret.leader_id \in get_members(devices, c)
    /\ \A c \in DOMAIN clusters :
          elected[c] # NULL => get_leader(clusters, devices, c) = elected[c]

\* C13: start_election on a cluster without members fails with the no-members
\* message, leaves the cluster rows as they were and appends no event.
C13_NoMembersNoChange ==
    [][\A c \in ClusterIds :
          (StartElection(c) /\ get_members(devices, c) = {})
             => /\ ~ret'.success
                /\ ret'.message = "No members in cluster"
                /\ clusters' = clusters
                /\ events' = events]_vars

\* A failed election on an existing, memberless cluster whose row no longer
\* holds the defaults of create_cluster.
C13_Witness ==
    /\ ret.op = "start_election"
    /\ ~ret.success
    /\ ret.message = "No members in cluster"
    /\ \E c \in DOMAIN clusters :
          /\ get_members(devices, c) = {}
          /\ clusters[c].status = "degraded"

\* The election term a cluster row carries: the clusters table has no column
\* for it and the handlers keep none in memory.
ClusterTerm(cls, c) == NULL

\* This step logged a leader_elected event for cluster c: an election of c
\* chose a leader (start_election itself or the one remove_member starts).
ElectionRan(c) ==
    /\ Len(events') = Len(events) + 1
    /\ events'[Len(events')].event_type = "leader_elected"
    /\ events'[Len(events')].source_id = <<"cluster", c>>

\* C14: every election of a cluster, re-elections after the loss of the leader
\* included, strictly increases the cluster's term, and within one term a
\* cluster never has two different devices recorded as leader.
C14_TermsIncrease ==
    [][\A c \in DOMAIN clusters :
          /\ ElectionRan(c)
                => ClusterTerm(clusters', c) > ClusterTerm(clusters, c)
          /\ (/\ c \in DOMAIN clusters'
              /\ ClusterTerm(clusters', c) = ClusterTerm(clusters, c)
              /\ clusters[c].leader_id # NULL
              /\ clusters'[c].leader_id # NULL)
                => clusters'[c].leader_id = clusters[c].leader_id]_vars

\* C15: start_election makes the member with the lowest (logicalClock,
\* deviceId) leader; the handlers keep no logical clock, so every candidate has
\* the same one and the member with the lowest device id wins.
C15_LowestCandidateWins ==
    [][\A c \in ClusterIds :
          (StartElection(c) /\ get_members(devices, c) # {})
             => /\ ret'.success
                /\ \A d \in get_members(devices, c) : ret'.leader_id <= d
                /\ clusters'[c].leader_id = ret'.leader_id]_vars

\* C16: remove_member of the cluster's current leader runs start_election for
\* the cluster in the same call (with members left it logs leader_elected and
\* records the leader chosen among them; with none left the election fails and
\* changes nothing); remove_member of any other member leaves leader_id alone.
C16_LeaderLossReelects ==
    [][\A c \in DOMAIN clusters, d \in DOMAIN devices :
          (RemoveMember(c, d) /\ devices[d].cluster_id = c)
             => LET left == get_members(devices', c) IN
                IF clusters[c].leader_id # d
                THEN /\ clusters'[c].leader_id = clusters[c].leader_id
                     /\ events' = events
                ELSE IF left = {}
                THEN /\ clusters'[c].leader_id = clusters[c].leader_id
                     /\ events' = events
                ELSE /\ ElectionRan(c)
                     /\ clusters'[c].leader_id = SelectLeader(left)
                     /\ clusters'[c].leader_id # d
                     /\ elected'[c] = clusters'[c].leader_id]_vars

\* remove_member has removed an elected leader and the election it started
\* has recorded another member.
C16_Witness ==
    /\ ret.op = "remove_member"
    /\ ret.success
    /\ Len(events) = 2
    /\ events[1].event_type = "leader_elected"
    /\ events[2].event_type = "leader_elected"
    /\ events[1].source_id = events[2].source_id
    /\ events[1].metadata.leader_name # events[2].metadata.leader_name
    /\ \E c \in DOMAIN clusters :
          /\ events[2].source_id = <<"cluster", c>>
          /\ clusters[c].leader_id = events[2].metadata.leader_name
          /\ events[1].metadata.leader_name \notin get_members(devices, c)

\* C26: only an election changes a cluster's leader_id: update_cluster
\* (whatever the updates, a status change included), add_member and
\* remove_member of a device that is not the leader leave the leader_id of
\* every cluster as it was.
C26_LeaderOnlyByElection ==
    [][\A x \in ClusterIds :
          (\/ \E status \in UpdateStatuses : UpdateCluster(x, status)
           \/ \E d \in DeviceIds : AddMember(x, d)
           \/ \E d \in DeviceIds :
                 /\ RemoveMember(x, d)
                 /\ ~(x \in DOMAIN clusters /\ clusters[x].leader_id = d))
             => \A c \in DOMAIN clusters :
                   /\ c \in DOMAIN clusters'
                   /\ clusters'[c].leader_id = clusters[c].leader_id]_vars

\* C27: add_member fails and changes nothing (device rows, cluster rows,
\* event log) when the device is already a member of the cluster (duplicate
\* membership), when the cluster is unknown and when the device is unknown.
C27_AddMemberRejects ==
    [][\A c \in ClusterIds, d \in DeviceIds :
          (/\ AddMember(c, d)
           /\ \/ c \notin DOMAIN clusters
              \/ d \notin DOMAIN devices
              \/ devices[d].cluster_id = c)
             => /\ ~ret'.success
                /\ ret'.message =
                      IF c \notin DOMAIN clusters THEN "Cluster not found"
                      ELSE IF d \notin DOMAIN devices THEN "Device not found"
                      ELSE "Device already in cluster"
                /\ devices' = devices
                /\ clusters' = clusters
                /\ events' = events]_vars

\* add_member has refused a device that is already a member of the cluster.
C27_Witness ==
    /\ ret.op = "add_member"
    /\ ~ret.success
    /\ ret.message = "Device already in cluster"
    /\ \E c \in DOMAIN clusters : get_members(devices, c) # {}

\* C28: after every completed add_member, remove_member, start_election and
\* update_cluster the member_count of the cluster the call was made on is the
\* number of devices whose cluster_id is that cluster.
C28_MemberCountIsMembers ==
    [][\A c \in ClusterIds :
          (/\ \/ \E d \in DeviceIds : AddMember(c, d)
              \/ \E d \in DeviceIds : RemoveMember(c, d)
              \/ StartElection(c)
              \/ \E status \in UpdateStatuses : UpdateCluster(c, status)
           /\ ret'.success
           /\ c \in DOMAIN clusters')
             => clusters'[c].member_count
                   = Cardinality(get_members(devices', c))]_vars

\* Membership changes and elections alone, on clusters made by create_cluster.
NextElection ==
    \/ \E c \in ClusterIds : StartElection(c)
    \/ \E c \in ClusterIds, d \in DeviceIds : AddMember(c, d)
    \/ \E c \in ClusterIds, d \in DeviceIds : RemoveMember(c, d)

SpecElection == Init /\ [][NextElection]_vars

\* C29: whatever add_member, remove_member and start_election calls were made,
\* the leader_id of a cluster is empty or the id of a device that is a member
\* of the cluster now: a removed leader is no longer recorded, also when it
\* was the last member or went to another cluster.
C29_LeaderIsMember ==
    \A c \in DOMAIN clusters :
        \/ clusters[c].leader_id = NULL
        \/ clusters[c].leader_id \in get_members(devices, c)

\* ------------------------------------------------------------ checkpoints
\* One second of wall-clock time passes (created_at is CURRENT_TIMESTAMP, whole
\* seconds).
Tick ==
    /\ now < MaxTime
    /\ now' = now + 1
    /\ UNCHANGED <<devices, clusters, checkpoints, events, uuids, ret, elected,
                   granted, waiting, proposals, votes, calls>>

ClusterRows(rows, c) == {i \in 1..Len(rows) : rows[i].cluster_id = c}

\* The rows "ORDER BY created_at DESC LIMIT 1" may put first: those with the
\* newest created_at.  SQL leaves the order of rows with equal sort keys open.
NewestRows(rows, c) ==
    {i \in ClusterRows(rows, c) :
        \A j \in ClusterRows(rows, c) : rows[j].created_at <= rows[i].created_at}

\* DatabaseManager.get_checkpoint_history(cluster_id, limit=1): the possible
\* result lists.
get_checkpoint_history(rows, c) ==
    IF ClusterRows(rows, c) = {} THEN {<<>>}
    ELSE {<<rows[i]>> : i \in NewestRows(rows, c)}

\* sequence_number = (history[0]["sequence_number"] if history else 0) + 1
NextSequenceNumber(history) ==
    (IF history # <<>> THEN history[1].sequence_number ELSE 0) + 1

\* DatabaseManager.save_checkpoint: INSERT OR REPLACE keyed by the fresh id;
\* created_at defaults to CURRENT_TIMESTAMP.
save_checkpoint(rows, id, c, data, seq) ==
    Append(rows, [id |-> id, cluster_id |-> c,
                  checkpoint_data |-> JsonDumps(data),
                  sequence_number |-> seq, created_at |-> now])

StorageFaults == {"none", "save", "log"}

\* AnalyticsManager.create_checkpoint, run alone.  fault names the store call
\* that raises, if any: the exception leaves the handler at that call.  The
\* checkpoints.cluster_id foreign key makes save_checkpoint raise for a cluster
\* that has no row.
CreateCheckpoint(c, data, fault) ==
    /\ uuids < MaxUuids
    /\ CanLog
    /\ uuids' = uuids + 1
    /\ \E history \in get_checkpoint_history(checkpoints, c) :
         LET id == uuids + 1
             seq == NextSequenceNumber(history)
             saved == fault # "save" /\ c \in DOMAIN clusters
             logged == saved /\ fault # "log" IN
         /\ checkpoints' = IF saved
                           THEN save_checkpoint(checkpoints, id, c, data, seq)
                           ELSE checkpoints
         /\ events' = IF logged
                      THEN log_event(events, "checkpoint_created",
                                     <<"cluster", c>>,
                                     [checkpoint_id |-> id,
                                      sequence_number |-> seq])
                      ELSE events
         /\ ret' = IF logged
                   THEN [NoRet EXCEPT !.op = "create_checkpoint",
                                      !.success = TRUE, !.status = "success",
                            !.id = id,
                                      !.sequence_number = seq]
                   ELSE [NoRet EXCEPT !.op = "create_checkpoint",
                                      !.raised = TRUE]
    /\ UNCHANGED <<devices, clusters, now, elected, granted, waiting,
                   proposals, votes, calls>>

\* restore_from_checkpoint putting the cluster row back to a fresh one.
RestoreWriteReset(cls, c) == add_cluster(cls, c, "forming", NULL, 0)

\* The clusters table after restore_from_checkpoint: the handler returns the
\* checkpoint's data and writes no row.
RestoreWrite(cls, c) == cls

\* AnalyticsManager.restore_from_checkpoint; id = NULL is the call without a
\* checkpoint_id.  Both branches look only at the first row of the history.
RestoreFromCheckpoint(c, id) ==
    /\ CanLog
    /\ \E history \in get_checkpoint_history(checkpoints, c) :
         IF id # NULL /\ ~(history # <<>> /\ history[1].id = id)
         THEN /\ ret' = [NoRet EXCEPT !.op = "restore_from_checkpoint",
                                      !.message = "Checkpoint not found"]
              /\ UNCHANGED events
         ELSE IF id = NULL /\ history = <<>>
         THEN /\ ret' = [NoRet EXCEPT !.op = "restore_from_checkpoint",
                                      !.message = "No checkpoints available"]
              /\ UNCHANGED events
         ELSE /\ events' = log_event(events, "checkpoint_restored",
                                     <<"cluster", c>>,
                                     [checkpoint_id |-> history[1].id,
                                      sequence_number |->
                                          history[1].sequence_number])
              /\ ret' = [NoRet EXCEPT
                            !.op = "restore_from_checkpoint",
                            !.success = TRUE,
                            !.id = history[1].id,
                            !.sequence_number = history[1].sequence_number,
                            !.data = JsonLoads(history[1].checkpoint_data)]
    /\ clusters' = RestoreWrite(clusters, c)
    /\ UNCHANGED <<devices, checkpoints, now, uuids, elected,
                   granted, waiting, proposals, votes, calls>>

NextCheckpoint ==
    \/ Tick
    \/ \E c \in ClusterIds, data \in DataValues, fault \in StorageFaults :
          CreateCheckpoint(c, data, fault)
    \/ \E c \in ClusterIds, id \in 0..uuids : RestoreFromCheckpoint(c, id)

SpecCheckpoint == InitClusters /\ [][NextCheckpoint]_vars

\* C3: the sequence numbers of one cluster's checkpoints strictly increase in
\* the order the checkpoints were stored, so none is stored twice - also after
\* failed and retried attempts and for checkpoints with equal created_at.
C3_SequenceStrictlyIncreasing ==
    \A i, j \in 1..Len(checkpoints) :
        (i < j /\ checkpoints[i].cluster_id = checkpoints[j].cluster_id)
            => checkpoints[i].sequence_number < checkpoints[j].sequence_number

\* C8: restore_from_checkpoint with an explicit id returns the data of the
\* checkpoint of that id whenever the cluster has one, and reports
\* checkpoint-not-found only when it has none.
C8_RestoreById ==
    [][\A c \in ClusterIds, id \in 1..MaxUuids :
          RestoreFromCheckpoint(c, id)
             => LET hit == {i \in ClusterRows(checkpoints, c) :
                               checkpoints[i].id = id} IN
                IF hit # {}
                THEN /\ ret'.success
                     /\ ret'.id = id
                     /\ \A i \in hit :
                           /\ ret'.data
                                 = JsonLoads(checkpoints[i].checkpoint_data)
                           /\ ret'.sequence_number
                                 = checkpoints[i].sequence_number
                ELSE ~ret'.success /\ ret'.message = "Checkpoint not found"]_vars

\* C9: restore_from_checkpoint without an id returns the data of a checkpoint
\* with the highest sequence_number of the cluster, whatever the checkpoints'
\* created_at.
C9_RestoreLatest ==
    [][\A c \in ClusterIds :
          (RestoreFromCheckpoint(c, NULL) /\ ClusterRows(checkpoints, c) # {})
             => /\ ret'.success
                /\ \E i \in ClusterRows(checkpoints, c) :
                      /\ \A j \in ClusterRows(checkpoints, c) :
                            checkpoints[j].sequence_number
                                <= checkpoints[i].sequence_number
                      /\ ret'.sequence_number = checkpoints[i].sequence_number
                      /\ ret'.data
                            = JsonLoads(checkpoints[i].checkpoint_data)]_vars

\* C11: a checkpoint row exists exactly when the checkpoint_created event of
\* that checkpoint (same cluster, id and sequence number) exists, also after a
\* store call of create_checkpoint has failed.
C11_CheckpointIffEvent ==
    /\ \A i \in 1..Len(checkpoints) :
          \E k \in 1..Len(events) :
              /\ events[k].event_type = "checkpoint_created"
              /\ events[k].source_id = <<"cluster", checkpoints[i].cluster_id>>
              /\ events[k].metadata.checkpoint_id = checkpoints[i].id
              /\ events[k].metadata.sequence_number
                    = checkpoints[i].sequence_number
    /\ \A k \in 1..Len(events) :
          events[k].event_type = "checkpoint_created"
             => \E i \in 1..Len(checkpoints) :
                   /\ checkpoints[i].id = events[k].metadata.checkpoint_id
                   /\ <<"cluster", checkpoints[i].cluster_id>>
                         = events[k].source_id

\* The row of a cluster after start_election over the members and a
\* process_heartbeat of one of them that names the cluster.
LedCluster(members) ==
    [status |-> "active", leader_id |-> SelectLeader(members),
     member_count |-> Cardinality(members)]

\* The store with every cluster created, every device registered into
\* TheCluster and heard of, and TheCluster led by one of them.
InitRestore ==
    /\ now = 0
    /\ clusters = [c \in ClusterIds |->
                     IF c = TheCluster THEN LedCluster(DeviceIds)
                     ELSE NewCluster]
    /\ devices = [d \in DeviceIds |-> HeardDevice(TheCluster)]
    /\ InitCoordination

\* Time passes, checkpoints of TheCluster are created (no store call fails)
\* and any cluster is restored, with or without a checkpoint id.
NextRestore ==
    \/ Tick
    \/ \E data \in DataValues :
          CreateCheckpoint(TheCluster, data, "none")
    \/ \E c \in ClusterIds, id \in 0..uuids : RestoreFromCheckpoint(c, id)

SpecRestore == InitRestore /\ [][NextRestore]_vars

\* C24: restore_from_checkpoint, successful or not, leaves every device row,
\* every cluster row and every stored checkpoint as it was; it appends one
\* checkpoint_restored event when it succeeds and nothing otherwise.
C24_RestoreLeavesLiveState ==
    [][\A c \in ClusterIds, id \in 0..MaxUuids :
          RestoreFromCheckpoint(c, id)
             => /\ devices' = devices
                /\ clusters' = clusters
                /\ checkpoints' = checkpoints
                /\ IF ret'.success
                   THEN /\ Len(events') = Len(events) + 1
                        /\ SubSeq(events', 1, Len(events)) = events
                        /\ events'[Len(events')].event_type
                              = "checkpoint_restored"
                   ELSE events' = events]_vars

\* A restore has succeeded on a store that holds devices, clusters and a
\* checkpoint.
C24_Witness ==
    /\ ret.op = "restore_from_checkpoint"
    /\ ret.success
    /\ events # <<>>
    /\ events[Len(events)].event_type = "checkpoint_restored"
    /\ checkpoints # <<>>
    /\ DOMAIN devices # {}
    /\ DOMAIN clusters # {}

\* ------------------------------------------- interleaved create_checkpoint
\* Callers of create_checkpoint running at once (one Streamlit session thread
\* each; the handlers take no lock).  A frame is the caller's local state
\* between two store calls.
Callers == 1..NumCallers

IdleFrame ==
    [pc |-> "idle", cluster_id |-> NULL, id |-> NULL, data |-> NULL,
     sequence_number |-> NULL, read_len |-> 0]

\* uuid4 and "history = get_checkpoint_history(cluster_id, limit=1)": the
\* caller has its sequence number and has not written yet.
ReadSequence(p, c, data) ==
    /\ p \in DOMAIN calls => calls[p].pc = "idle"
    /\ uuids < MaxUuids
    /\ uuids' = uuids + 1
    /\ \E history \in get_checkpoint_history(checkpoints, c) :
         calls' = [q \in DOMAIN calls \cup {p} |->
                     IF q = p
                     THEN [pc |-> "read", cluster_id |-> c, id |-> uuids + 1,
                           data |-> data,
                           sequence_number |-> NextSequenceNumber(history),
                           read_len |-> Len(checkpoints)]
                     ELSE calls[q]]
    /\ UNCHANGED <<devices, clusters, checkpoints, events, now, ret, elected,
                   granted, waiting, proposals, votes>>

\* db_manager.save_checkpoint(...) of a caller that has read; for a cluster
\* without a row the foreign key makes the INSERT raise and the call ends.
SaveStep(p) ==
    /\ p \in DOMAIN calls
    /\ calls[p].pc = "read"
    /\ IF calls[p].cluster_id \in DOMAIN clusters
       THEN /\ checkpoints' = save_checkpoint(
                                  checkpoints, calls[p].id,
                                  calls[p].cluster_id, calls[p].data,
                                  calls[p].sequence_number)
            /\ calls' = [calls EXCEPT ![p].pc = "saved"]
            /\ UNCHANGED ret
       ELSE /\ calls' = [calls EXCEPT ![p] = IdleFrame]
            /\ ret' = [NoRet EXCEPT !.op = "create_checkpoint",
                                    !.raised = TRUE]
            /\ UNCHANGED checkpoints
    /\ UNCHANGED <<devices, clusters, events, now, uuids, elected,
                   granted, waiting, proposals, votes>>

\* db_manager.log_event("checkpoint_created", ...) and the return
LogStep(p) ==
    /\ p \in DOMAIN calls
    /\ calls[p].pc = "saved"
    /\ CanLog
    /\ events' = log_event(events, "checkpoint_created",
                           <<"cluster", calls[p].cluster_id>>,
                           [checkpoint_id |-> calls[p].id,
                            sequence_number |-> calls[p].sequence_number])
    /\ ret' = [NoRet EXCEPT !.op = "create_checkpoint", !.success = TRUE,
                            !.status = "success",
                            !.id = calls[p].id,
                            !.sequence_number = calls[p].sequence_number]
    /\ calls' = [calls EXCEPT ![p] = [IdleFrame EXCEPT
                    !.cluster_id = calls[p].cluster_id,
                    !.id = calls[p].id,
                    !.sequence_number = calls[p].sequence_number,
                    !.read_len = calls[p].read_len,
                    !.pc = "idle"]]
    /\ UNCHANGED <<devices, clusters, checkpoints, now, uuids, elected,
                   granted, waiting, proposals, votes>>

NextConcurrent ==
    \/ Tick
    \/ \E p \in Callers, c \in ClusterIds, data \in DataValues :
          ReadSequence(p, c, data)
    \/ \E p \in Callers : SaveStep(p)
    \/ \E p \in Callers : LogStep(p)

SpecConcurrent == InitClusters /\ [][NextConcurrent]_vars

\* The checkpoint row a caller's last save stored, if it is stored.
StoredBy(p) ==
    {i \in 1..Len(checkpoints) :
        p \in DOMAIN calls /\ checkpoints[i].id = calls[p].id}

\* C10: two create_checkpoint calls on one cluster that both read the previous
\* sequence number before either wrote still store distinct sequence numbers,
\* each above every sequence number stored before the calls began.
C10_InterleavedCreatesDistinct ==
    \A p, q \in DOMAIN calls :
        (/\ p # q
         /\ calls[p].cluster_id = calls[q].cluster_id
         /\ calls[p].read_len = calls[q].read_len
         /\ StoredBy(p) # {} /\ StoredBy(q) # {})
          => /\ calls[p].sequence_number # calls[q].sequence_number
             /\ \A i \in ClusterRows(checkpoints, calls[p].cluster_id) :
                   i <= calls[p].read_len
                     => checkpoints[i].sequence_number
                            < calls[p].sequence_number

\* ---------------------------------------------------------- vector clocks
\* ClusterManager.update_vector_clock: a fresh clock_id and one
\* vector_clock_update event; the result holds clock_id, timestamp and
\* device_id, and no counter is read or written.
UpdateVectorClock(c, d, event) ==
    LET id == uuids + 1 IN
    /\ uuids < MaxUuids
    /\ CanLog
    /\ uuids' = id
    /\ events' = log_event(events, "vector_clock_update", <<"cluster", c>>,
                           [clock_id |-> id, device_id |-> d,
                            event |-> event])
    /\ ret' = [NoRet EXCEPT !.op = "update_vector_clock", !.id = id]
    /\ UNCHANGED <<devices, clusters, checkpoints, now, elected, granted,
                   waiting, proposals, votes, calls>>

NextClock ==
    \/ Tick
    \/ \E c \in ClusterIds, d \in DeviceIds, event \in DataValues :
          UpdateVectorClock(c, d, event)

SpecClock == InitEmpty /\ [][NextClock]_vars

\* The number of events device d has recorded for cluster c so far: the
\* vector_clock_update rows of the log.
RecordedEvents(log, c, d) ==
    Cardinality({k \in 1..Len(log) :
                    /\ log[k].event_type = "vector_clock_update"
                    /\ log[k].source_id = <<"cluster", c>>
                    /\ log[k].metadata.device_id = d})

\* C18: update_vector_clock(cluster, device, event) returns the cluster's
\* device-id-to-counter mapping after the event: the issuing device's entry is
\* one more than before the call, every other entry is as before.
C18_RecordEventIncrements ==
    [][\A c \in ClusterIds, d \in DeviceIds, event \in DataValues :
          UpdateVectorClock(c, d, event)
             => /\ d \in DOMAIN ret'.clock
                /\ ret'.clock[d] = RecordedEvents(events, c, d) + 1
                /\ \A x \in DOMAIN ret'.clock \ {d} :
                      ret'.clock[x] = RecordedEvents(events, c, x)]_vars

\* --------------------------------------------------------------- recovery
\* AnalyticsManager.initiate_recovery: a fresh recovery id and one
\* recovery_initiated event; the cluster id is not looked up.
InitiateRecovery(c) ==
    LET id == uuids + 1 IN
    /\ uuids < MaxUuids
    /\ CanLog
    /\ uuids' = id
    /\ events' = log_event(events, "recovery_initiated", <<"cluster", c>>,
                           [recovery_id |-> id])
    /\ ret' = [NoRet EXCEPT !.op = "initiate_recovery", !.id = id,
                            !.status = "in_progress"]
    /\ UNCHANGED <<devices, clusters, checkpoints, now, elected, granted,
                   waiting, proposals, votes, calls>>

\* AnalyticsManager.complete_recovery: one recovery_completed event whose
\* source is the recovery id, and the caller's success flag handed back; the
\* handler reads nothing.
CompleteRecovery(id, success) ==
    /\ CanLog
    /\ events' = log_event(events, "recovery_completed", <<"recovery", id>>,
                           [recovery_id |-> id, success |-> success])
    /\ ret' = [NoRet EXCEPT !.op = "complete_recovery", !.id = id,
                            !.success = success]
    /\ UNCHANGED <<devices, clusters, checkpoints, now, uuids, elected,
                   granted, waiting, proposals, votes, calls>>

NextRecovery ==
    \/ \E c \in ClusterIds : InitiateRecovery(c)
    \/ \E id \in 1..MaxUuids, success \in BOOLEAN :
          CompleteRecovery(id, success)

SpecRecovery == InitEmpty /\ [][NextRecovery]_vars

\* The recovery_completed rows of the log for recovery id.
CompletedEvents(id) ==
    {k \in 1..Len(events) :
        /\ events[k].event_type = "recovery_completed"
        /\ events[k].metadata.recovery_id = id}

\* C12: complete_recovery on an initiated recovery id that is already completed appends
\* no further recovery_completed event and returns the success flag of the
\* first completion, whatever flag the call passes.
C12_CompleteIdempotent ==
    [][\A id \in 1..MaxUuids, success \in BOOLEAN :
          (/\ CompleteRecovery(id, success)
           /\ id <= uuids
           /\ CompletedEvents(id) # {})
             => /\ events' = events
                /\ \A k \in CompletedEvents(id) :
                      (\A j \in CompletedEvents(id) : k <= j)
                         => ret'.success = events[k].metadata.success]_vars

\* -------------------------------------------------------------- agreement
\* "quorum_size": 3 and "timeout": 10000 (milliseconds) of the result of
\* initiate_byzantine_agreement.
AgreementQuorumSize == 3

AgreementTimeout == 10000

MillisPerSecond == 1000

\* FaultToleranceConfig.faulty_nodes_tolerance, the f of the agreement.
FaultyNodesTolerance == 1

Voters == 1..NumVoters

VoteValues == {"accept", "reject"}

\* The "status" key of initiate_byzantine_agreement's result.
AgreementStatus(c, proposal) == "in_progress"

\* AnalyticsManager.initiate_byzantine_agreement: logs the proposal and returns;
\* the manager stores nothing about it (_byzantine_state is never written).
InitiateByzantineAgreement(c, proposal) ==
    LET id == uuids + 1 IN
    /\ Cardinality(DOMAIN proposals) < MaxProposals
    /\ uuids < MaxUuids
    /\ CanLog
    /\ uuids' = id
    /\ events' = log_event(events, "byzantine_agreement", <<"cluster", c>>,
                           [agreement_id |-> id, proposal |-> proposal])
    /\ proposals' = [x \in DOMAIN proposals \cup {id} |->
                       IF x = id
                       THEN [cluster_id |-> c, proposal |-> proposal,
                             status |-> AgreementStatus(c, proposal),
                             quorum_size |-> AgreementQuorumSize,
                             deadline |-> now + AgreementTimeout
                                                  \div MillisPerSecond]
                       ELSE proposals[x]]
    /\ votes' = [x \in DOMAIN votes \cup {id} |->
                   IF x = id THEN [d \in Voters |-> "none"] ELSE votes[x]]
    /\ ret' = [NoRet EXCEPT !.op = "initiate_byzantine_agreement",
                            !.success = TRUE, !.id = id,
                            !.status = AgreementStatus(c, proposal),
                            !.data = proposal]
    /\ UNCHANGED <<devices, clusters, checkpoints, now, elected, granted,
                   waiting, calls>>

\* A member sends its vote on a proposal before the deadline.  No handler of
\* the managers receives votes: nothing the code holds changes.
CastVote(id, d, v) ==
    /\ id \in DOMAIN proposals
    /\ now < proposals[id].deadline
    /\ votes[id][d] = "none"
    /\ votes' = [votes EXCEPT ![id][d] = v]
    /\ UNCHANGED <<devices, clusters, checkpoints, events, now, uuids, ret,
                   elected, granted, waiting, proposals, calls>>

\* Time passes until the deadline of a proposal.  No timer of the managers
\* is armed for it.
DeadlinePasses(id) ==
    /\ id \in DOMAIN proposals
    /\ now < proposals[id].deadline
    /\ now' = proposals[id].deadline
    /\ UNCHANGED <<devices, clusters, checkpoints, events, uuids, ret,
                   elected, granted, waiting, proposals, votes, calls>>

NextAgreement ==
    \/ \E proposal \in DataValues :
          InitiateByzantineAgreement(TheCluster, proposal)
    \/ \E id \in 1..MaxUuids, d \in Voters, v \in VoteValues :
          CastVote(id, d, v)
    \/ \E id \in 1..MaxUuids : DeadlinePasses(id)

SpecAgreement == InitEmpty /\ [][NextAgreement]_vars

\* The devices that voted v on proposal id.
VotesFor(id, v) == {d \in Voters : votes[id][d] = v}

\* C4: a committed proposal stays committed with the same value, whatever
\* happens later.
C4_CommittedIsFinal ==
    [][\A id \in DOMAIN proposals :
          proposals[id].status = "committed"
             => /\ id \in DOMAIN proposals'
                /\ proposals'[id].status = "committed"
                /\ proposals'[id].proposal = proposals[id].proposal]_vars

\* C5: members {A,B,C} = {1,2,3}, quorum 2: a proposal on which A and B voted
\* accept and C did not vote is, once its deadline has passed, committed with
\* the proposed value.
C5_TwoAcceptsCommit ==
    \A id \in DOMAIN proposals :
        (/\ VotesFor(id, "accept") = {1, 2}
         /\ VotesFor(id, "none") = Voters \ {1, 2}
         /\ now >= proposals[id].deadline)
           => proposals[id].status = "committed"

\* C21: a proposal whose deadline has passed without a quorum of matching
\* votes is aborted (it does not stay in progress), and no proposal is
\* committed on fewer than quorum matching votes.
C21_NoQuorumAborts ==
    \A id \in DOMAIN proposals :
        /\ (/\ now >= proposals[id].deadline
            /\ \A v \in VoteValues :
                  Cardinality(VotesFor(id, v)) < proposals[id].quorum_size)
              => proposals[id].status = "aborted"
        /\ proposals[id].status = "committed"
              => \E v \in VoteValues :
                    Cardinality(VotesFor(id, v)) >= proposals[id].quorum_size

\* C22: the quorum an agreement is run with exceeds the tolerated fault count
\* f and is at most n - f for the n members that vote, so that f faulty
\* voters can neither reach the quorum alone nor keep the others from it;
\* quorum_size 3 with faulty_nodes_tolerance 1 meets this for every cluster
\* size an agreement can be initiated on.
C22_QuorumWithinBounds ==
    \A id \in DOMAIN proposals :
        /\ FaultyNodesTolerance < proposals[id].quorum_size
        /\ proposals[id].quorum_size
              <= Cardinality(Voters) - FaultyNodesTolerance

\* -------------------------------------------------------- fault detection
\* DeviceConfig.heartbeat_timeout and the default timeout_seconds of
\* get_stale_devices, in seconds: the one heartbeat timeout of the code.
HeartbeatTimeout == 60

\* The store with every cluster created and some devices registered into
\* them, none heard of yet.
InitFault ==
    /\ clusters = [c \in ClusterIds |-> NewCluster]
    /\ \E D \in SUBSET DeviceIds :
          devices \in [D -> {NewDevice(c) : c \in ClusterIds}]
    /\ InitCoordination

\* DeviceManager.process_heartbeat(device_id, heartbeat_data): the row gets
\* status online and last_heartbeat now (cluster_id is not passed and stays);
\* c is heartbeat_data's "cluster_id" (NULL: none), whose member_count is set
\* to the number of its devices.  The call returns True.
ProcessHeartbeat(d, c) ==
    LET devs == IF d \in DOMAIN devices
                THEN update_device_status(devices, d, "online",
                                          devices[d].cluster_id)
                ELSE devices IN
    /\ devices' = devs
    /\ clusters' = IF c # NULL
                   THEN update_cluster_member_count(
                            clusters, c, Cardinality(get_members(devs, c)))
                   ELSE clusters
    /\ ret' = [NoRet EXCEPT !.op = "process_heartbeat", !.success = TRUE]
    /\ UNCHANGED <<checkpoints, events, now, uuids, elected, granted, waiting,
                   proposals, votes, calls>>

\* More than the heartbeat timeout passes without any call.
TimeoutPasses ==
    /\ now < MaxTime
    /\ now' = now + HeartbeatTimeout + 1
    /\ UNCHANGED <<devices, clusters, checkpoints, events, uuids, ret, elected,
                   granted, waiting, proposals, votes, calls>>

\* DeviceManager.get_stale_devices(timeout_seconds): the online devices whose
\* last_heartbeat is set and older than now - timeout_seconds.
get_stale_devices(devs, timeout_seconds) ==
    {d \in DOMAIN devs :
        /\ devs[d].status = "online"
        /\ devs[d].last_heartbeat # NoHeartbeat
        /\ devs[d].last_heartbeat < now - timeout_seconds}

\* The list detect_faulty_nodes returns: "Placeholder - return empty list".
FaultyNodes(devs, c) == {}

\* AnalyticsManager.detect_faulty_nodes: reads and writes nothing.
DetectFaultyNodes(c) ==
    /\ ret' = [NoRet EXCEPT !.op = "detect_faulty_nodes",
                            !.nodes = FaultyNodes(devices, c)]
    /\ UNCHANGED <<devices, clusters, checkpoints, events, now, uuids, elected,
                   granted, waiting, proposals, votes, calls>>

NextFault ==
    \/ Tick
    \/ TimeoutPasses
    \/ \E d \in DeviceIds, c \in ClusterIds \cup {NULL} : ProcessHeartbeat(d, c)
    \/ \E c \in ClusterIds : DetectFaultyNodes(c)

SpecFault == InitFault /\ [][NextFault]_vars

\* C23: detect_faulty_nodes(cluster) returns exactly the members of the
\* cluster that are faulty: those whose last heartbeat is older than the
\* timeout, and no member heard of within it.
C23_DetectsStaleMembers ==
    [][\A c \in ClusterIds :
          DetectFaultyNodes(c)
             => ret'.nodes = get_members(devices, c)
                                \cap get_stale_devices(devices,
                                                       HeartbeatTimeout)]_vars

\* ------------------------------------------------------- event retention
SecondsPerDay == 86400

\* The date part of a timestamp (the clock is taken as UTC, as
\* CURRENT_TIMESTAMP is).
DateOf(t) == t \div SecondsPerDay

\* The days cleanup_old_data is called with (30 is the default).
RetentionDays == {1, 30}

\* DELETE FROM events WHERE timestamp < cutoff, with cutoff =
\* datetime.now().isoformat(): days does not enter the cutoff.  The column
\* holds "YYYY-MM-DD HH:MM:SS" and the cutoff is "YYYY-MM-DDTHH:MM:SS.ffffff";
\* the texts are compared, and " " sorts before "T": a row is deleted when its
\* date is the cutoff's date or an earlier one.
KeptEvents(log, days) ==
    LET keep == {k \in 1..Len(log) : DateOf(log[k].timestamp) > DateOf(now)}
        F[i \in 0..Len(log)] ==
            IF i = 0 THEN <<>>
            ELSE IF i \in keep THEN Append(F[i - 1], log[i]) ELSE F[i - 1]
    IN F[Len(log)]

\* DatabaseManager.cleanup_old_data(days); it returns nothing.
CleanupOldData(days) ==
    /\ events' = KeptEvents(events, days)
    /\ ret' = [NoRet EXCEPT !.op = "cleanup_old_data"]
    /\ UNCHANGED <<devices, clusters, checkpoints, now, uuids, elected,
                   granted, waiting, proposals, votes, calls>>

NextCleanup ==
    \/ NextClock
    \/ \E days \in RetentionDays : CleanupOldData(days)

SpecCleanup == InitEmpty /\ [][NextCleanup]_vars

\* C25: the event log only grows, except that cleanup_old_data(days) may drop
\* events that are at least `days` days old: every event younger than that
\* is still there, unmodified and in order, after any call.
C25_RecentEventsKept ==
    [][/\ (\A days \in RetentionDays : ~CleanupOldData(days))
          => /\ Len(events') >= Len(events)
             /\ SubSeq(events', 1, Len(events)) = events
       /\ \A days \in RetentionDays :
             CleanupOldData(days)
                => \A k \in 1..Len(events) :
                      now - events[k].timestamp < days * SecondsPerDay
                         => \E j \in 1..Len(events') :
                               events'[j] = events[k]]_vars

\* ---------------------------------------------------------- causal history
\* No `since` argument.
NoSince == -1

\* The values of `since` a caller passes.
SinceValues == {NoSince} \cup 0..MaxTime

\* DatabaseManager.get_events(event_type=None, severity=None, since, limit):
\* the ids of the rows, in the order returned.  "timestamp >= ?" compares the
\* column text "YYYY-MM-DD HH:MM:SS" with since.isoformat(),
\* "YYYY-MM-DDTHH:MM:SS": only rows of a later date pass.  The rows come
\* "ORDER BY timestamp DESC"; rows of one second are in any order.  LIMIT
\* 1000 is above MaxEvents.
get_events(log, since) ==
    LET sel == {k \in 1..Len(log) :
                   since # NoSince
                      => DateOf(log[k].timestamp) > DateOf(since)}
    IN {r \in [1..Cardinality(sel) -> sel] :
           \A i, j \in DOMAIN r :
              i < j => /\ r[i] # r[j]
                       /\ log[r[i]].timestamp >= log[r[j]].timestamp}

\* ClusterManager.get_causal_history(cluster_id, since): the rows of
\* get_events; cluster_id is not passed on.
GetCausalHistory(c, since) ==
    /\ \E r \in get_events(events, since) :
          ret' = [NoRet EXCEPT !.op = "get_causal_history", !.rows = r]
    /\ UNCHANGED <<devices, clusters, checkpoints, events, now, uuids,
                   elected, granted, waiting, proposals, votes, calls>>

\* Events of a cluster and of recoveries are logged as time passes, and the
\* history is read.
NextHistory ==
    \/ Tick
    \/ \E c \in ClusterIds, d \in DeviceIds, event \in DataValues :
          UpdateVectorClock(c, d, event)
    \/ \E id \in 1..MaxUuids, success \in BOOLEAN :
          CompleteRecovery(id, success)
    \/ \E c \in ClusterIds, since \in SinceValues : GetCausalHistory(c, since)

SpecHistory == InitEmpty /\ [][NextHistory]_vars

\* C30: get_causal_history(cluster, since) returns only events whose source
\* is the given cluster, and an event logged before another one comes before
\* it in the returned sequence.
C30_HistoryOfClusterInOrder ==
    [][\A c \in ClusterIds, since \in SinceValues :
          GetCausalHistory(c, since)
             => /\ \A i \in DOMAIN ret'.rows :
                      events[ret'.rows[i]].source_id = <<"cluster", c>>
                /\ \A i, j \in DOMAIN ret'.rows :
                      i < j => ret'.rows[i] < ret'.rows[j]]_vars

====
